---- MODULE Spec2Model ----
(***************************************************************************)
(* LocalApps/PlotData.py: read interface-utilization samples from a CSV    *)
(* file, optionally restrict them to the device:interface pairs of a YAML  *)
(* descriptor, keep per (time, device, interface, sample_type) group the   *)
(* row of maximum d_octets_in and the row of maximum d_octets_out, merge   *)
(* the two selections, and plot one chart per device/interface.            *)
(*                                                                         *)
(* A table (pandas DataFrame) is a record [columns, rows]: columns is the  *)
(* sequence of column names, rows the sequence of rows, each row a         *)
(* function from column name to value.  A row's index label is its         *)
(* position (pandas counts from 0, the model from 1).  A Python value that *)
(* may be None is a sequence of length 0 (None) or 1.                      *)
(***************************************************************************)
EXTENDS Integers, Sequences, FiniteSets, TLC

VARIABLES
    argv,            \* the command line: [flags, interfaces]
    args,            \* the parsed options: [min, avg, max]
    disk,            \* readable files: path -> content
    pc,              \* position of the program
    filename,        \* get_rate_data's first parameter
    interface_file,  \* get_rate_data's second parameter (None or a path)
    data,            \* the table read from the data file
    interface_data,  \* the parsed descriptor, or None
    data_merged,     \* the table get_rate_data returns
    stdout,          \* the lines printed so far
    exit_status,     \* None, or the status/exception the process ended with
    plot_set,        \* generate_plots' set of sample types to draw
    todo,            \* (device, interface) pairs still to be charted
    loop_i,          \* position in the ['max', 'avg', 'min'] loop
    figures,         \* the charts currently open, oldest first
    shown            \* every chart plt.show() displayed, in order

vars == <<argv, args, disk, pc, filename, interface_file, data, interface_data,
          data_merged, stdout, exit_status, plot_set, todo, loop_i, figures,
          shown>>

----------------------------------------------------------------------------
\* Bounds of the model.

\* The longest data file, in rows.
MaxRows == 2

----------------------------------------------------------------------------
\* Python's None and a present value.

None == <<>>

Some(x) == <<x>>

Range(s) == {s[i] : i \in DOMAIN s}

RECURSIVE Concat(_)
Concat(ss) == IF ss = <<>> THEN <<>> ELSE Head(ss) \o Concat(Tail(ss))

----------------------------------------------------------------------------
\* Module constants.

data_columns ==
    <<"time", "device", "interface", "interface_speed",
      "sample_type", "d_octets_in", "d_octets_out">>

plot_style ==
    [min |-> <<"g:", "b:">>, avg |-> <<"g-", "b-">>, max |-> <<"g--", "b--">>]

\* The columns get_rate_data groups and merges on.
GroupCols == {"time", "device", "interface", "sample_type"}

----------------------------------------------------------------------------
\* The values the inputs are drawn from.

T0Z == "2021-01-01T00:00:00Z"
T0P == "2021-01-01T00:00:00+00:00"
T5Z == "2021-01-01T00:05:00Z"

\* pd.to_datetime: parses the text of a time; two spellings of one instant
\* parse to the same timestamp (seconds since the epoch, UTC).
ToDatetime(t) ==
    CASE t = T0Z -> 1609459200
      [] t = T0P -> 1609459200
      [] t = T5Z -> 1609459500

GKey(t, d, i, s) == [time |-> t, device |-> d, interface |-> i, sample_type |-> s]

\* Every group key of the model, in the order pandas sorts groups
\* (lexicographic in time, device, interface, sample_type).
SortedKeys ==
    << GKey(T0P, "hostA", "eth0", "avg"),
       GKey(T0Z, "hostA", "eth0", "avg"),
       GKey(T0Z, "hostA", "eth0", "max"),
       GKey(T0Z, "hostA", "eth0", "min"),
       GKey(T0Z, "hostA", "eth1", "avg"),
       GKey(T0Z, "hostB", "eth0", "avg"),
       GKey(T5Z, "hostA", "eth0", "avg") >>

\* Every (device, interface) of the model, in groupby order.
SortedPairs ==
    << <<"hostA", "eth0">>, <<"hostA", "eth1">>, <<"hostB", "eth0">> >>

Speeds == {100, 1000}

Octets == {0, 1}

Row(k, speed, din, dout) ==
    [time |-> k.time, device |-> k.device, interface |-> k.interface,
     interface_speed |-> speed, sample_type |-> k.sample_type,
     d_octets_in |-> din, d_octets_out |-> dout]

\* Rows for the reducer: every field that the reduction reads varies.
RateRows ==
    {Row(k, s, i, o) : k \in Range(SortedKeys) \ {GKey(T0Z, "hostA", "eth0", "min")},
                       s \in Speeds, i \in Octets, o \in Octets}

\* Rows for the filter: the key and the inbound counter vary.
FilterRows ==
    {r \in RateRows : r.interface_speed = 1000 /\ r.d_octets_out = 0}

\* Rows for the plotter: the key varies over device, interface and sample type.
PlotRows ==
    {Row(k, 1000, 1, 0) : k \in {q \in Range(SortedKeys) : q.time = T0Z}}

\* A CSV file with the expected header and up to MaxRows rows of R.
CsvFiles(R) ==
    {[columns |-> data_columns, rows |-> rs] :
        rs \in UNION {[1..n -> R] : n \in 0..MaxRows}}

Host(name, interfaces) == name :> [interfaces |-> interfaces]

Collector(name, hosts) == name :> [hosts |-> hosts]

\* What safe_load returns for the descriptor files of the model: an empty
\* document (None), no collectors, one host with one interface, two
\* collectors, and a structure without the 'collectors' key.
Descriptors ==
    { None,
      Some([collectors |-> <<>>]),
      Some([collectors |-> <<Collector("c1", <<Host("hostA", <<"eth0">>)>>)>>]),
      Some([collectors |->
              <<Collector("c1", <<Host("hostA", <<"eth0", "eth1">>)>>),
                Collector("c2", <<Host("hostB", <<"eth0">>),
                                  Host("hostC", <<>>)>>)>>]),
      Some([hosts |-> <<>>]) }

DataPath == "rates.csv"

YamlPath == "interfaces.yaml"

----------------------------------------------------------------------------
\* get_rate_data, lines 77-95: the two reads.

\* pd.DataFrame(data=None, columns=cols): no rows, the given columns.
EmptyFrameNoColumns(cols) == [columns |-> <<>>, rows |-> <<>>]

EmptyFrame(cols) == [columns |-> cols, rows |-> <<>>]

\* open(path): an IOError when the path is not a readable file.
Readable(fs, path) == path \in DOMAIN fs

\* The table the loader leaves in `data`.
ReadData(fs, path) ==
    IF Readable(fs, path) THEN fs[path] ELSE EmptyFrame(data_columns)

\* The descriptor kept in interface_data: None when no file is named, when
\* the name is empty or when the file cannot be read; otherwise what
\* safe_load returns.
ReadInterfacesEmptyOnError(fs, ifile) ==
    IF ifile # None /\ ifile[1] # "" /\ ~Readable(fs, ifile[1])
    THEN Some([collectors |-> <<>>])
    ELSE IF ifile # None /\ ifile[1] # "" THEN fs[ifile[1]] ELSE None

ReadInterfaces(fs, ifile) ==
    IF ifile # None /\ ifile[1] # ""
    THEN IF Readable(fs, ifile[1]) THEN fs[ifile[1]] ELSE None
    ELSE None

----------------------------------------------------------------------------
\* get_rate_data, lines 97-110: the interface filter.

\* The subscripts of lines 99-103 all find their key.
WellFormed(d) ==
    /\ "collectors" \in DOMAIN d
    /\ \A cd \in Range(d.collectors) : \A c \in DOMAIN cd :
          /\ "hosts" \in DOMAIN cd[c]
          /\ \A hd \in Range(cd[c].hosts) : \A h \in DOMAIN hd :
                "interfaces" \in DOMAIN hd[h]

\* "{}:{}".format(host, i) and dev + ':' + intf.
HostPort(dev, intf) == dev \o ":" \o intf

\* interface_list: every host of every collector with each of its
\* interfaces.  Only membership in the list is used, so it is kept as a set.
InterfaceList(d) ==
    UNION { UNION { UNION { UNION {
        { HostPort(h, hd[h].interfaces[n]) : n \in DOMAIN hd[h].interfaces }
            : h \in DOMAIN hd }
            : hd \in Range(cd[c].hosts) }
            : c \in DOMAIN cd }
            : cd \in Range(d.collectors) }

\* The labels of the rows that .query("host_port in @interface_list") keeps.
QueryLabelsByDevice(t, ilist) ==
    {i \in DOMAIN t.rows :
        \E hp \in ilist : \E intf \in {"eth0", "eth1"} :
            hp = HostPort(t.rows[i].device, intf)}

QueryLabels(t, ilist) ==
    {i \in DOMAIN t.rows :
        HostPort(t.rows[i].device, t.rows[i].interface) \in ilist}

\* grouped_data: the labels of the rows that are grouped.
GroupedLabels(t, idata) ==
    IF idata # None THEN QueryLabels(t, InterfaceList(idata[1]))
    ELSE DOMAIN t.rows

----------------------------------------------------------------------------
\* get_rate_data, lines 110-127: group, select, merge.

GroupKey(r) == [c \in GroupCols |-> r[c]]

\* The keys of the groups, in groupby's sorted order.
GroupKeys(t, labels) ==
    SelectSeq(SortedKeys, LAMBDA k : \E i \in labels : GroupKey(t.rows[i]) = k)

GroupLabels(t, labels, k) == {i \in labels : GroupKey(t.rows[i]) = k}

Min(S) == CHOOSE x \in S : \A y \in S : x <= y

Max(S) == CHOOSE x \in S : \A y \in S : y <= x

\* The labels of a group whose value in column col is the group's maximum.
ArgMax(t, g, col) == {i \in g : \A j \in g : t.rows[j][col] <= t.rows[i][col]}

\* Series.idxmax on one group: the label of the first occurrence of the
\* maximum.
IdxMaxLast(t, g, col) == Max(ArgMax(t, g, col))

IdxMax(t, g, col) == Min(ArgMax(t, g, col))

\* A set of labels as a sequence in increasing order.
RECURSIVE Ascending(_)
Ascending(S) == IF S = {} THEN <<>> ELSE <<Min(S)>> \o Ascending(S \ {Min(S)})

\* grouped_data[col].idxmax(): one label per group, in group order.
GroupIdxAllMax(t, labels, col) ==
    LET ks == GroupKeys(t, labels)
    IN  Concat([n \in DOMAIN ks |->
                  Ascending(ArgMax(t, GroupLabels(t, labels, ks[n]), col))])

GroupIdxMax(t, labels, col) ==
    LET ks == GroupKeys(t, labels)
    IN  [n \in DOMAIN ks |-> IdxMax(t, GroupLabels(t, labels, ks[n]), col)]

\* data.loc[labels, :]
Loc(t, labelSeq) ==
    [columns |-> t.columns,
     rows |-> [n \in DOMAIN labelSeq |-> t.rows[labelSeq[n]]]]

\* .drop(cols, axis=1)
Drop(t, cols) ==
    [columns |-> SelectSeq(t.columns, LAMBDA c : c \notin cols),
     rows |-> [n \in DOMAIN t.rows |->
                 [c \in DOMAIN t.rows[n] \ cols |-> t.rows[n][c]]]]

\* data_in, lines 123-124.
DataInByOut(t, labels) ==
    Drop(Loc(t, GroupIdxMax(t, labels, "d_octets_out")), {"d_octets_out"})

DataIn(t, labels) ==
    Drop(Loc(t, GroupIdxMax(t, labels, "d_octets_in")), {"d_octets_out"})

\* data_out, lines 125-126.
DataOutKeepSpeed(t, labels) ==
    Drop(Loc(t, GroupIdxMax(t, labels, "d_octets_out")), {"d_octets_in"})

DataOut(t, labels) ==
    Drop(Loc(t, GroupIdxMax(t, labels, "d_octets_out")),
         {"d_octets_in", "interface_speed"})

\* pd.merge(left, right, on=on): the inner join of the two tables in the
\* order of the left rows.  A column that both sides hold and that is not
\* joined on is kept twice, suffixed _x (left) and _y (right).
Merge(left, right, on) ==
    LET lcols == Range(left.columns)
        rcols == Range(right.columns)
        LName(c) == IF c \notin on /\ c \in rcols THEN c \o "_x" ELSE c
        RName(c) == IF c \in lcols THEN c \o "_y" ELSE c
        rkeep == SelectSeq(right.columns, LAMBDA c : c \notin on)
        names == {LName(c) : c \in lcols} \cup {RName(c) : c \in Range(rkeep)}
        Combine(l, r) ==
            [n \in names |->
                IF \E c \in lcols : LName(c) = n
                THEN l[CHOOSE c \in lcols : LName(c) = n]
                ELSE r[CHOOSE c \in Range(rkeep) : RName(c) = n]]
        Matches(l) ==
            SelectSeq(right.rows, LAMBDA r : \A k \in on : r[k] = l[k])
    IN  [columns |-> [n \in DOMAIN left.columns |-> LName(left.columns[n])]
                     \o [n \in DOMAIN rkeep |-> RName(rkeep[n])],
         rows |-> Concat([i \in DOMAIN left.rows |->
                     [j \in DOMAIN Matches(left.rows[i]) |->
                         Combine(left.rows[i], Matches(left.rows[i])[j])]])]

\* data_merged["time"] = pd.to_datetime(data_merged["time"]), line 128.
TimeToDatetime(t) ==
    [t EXCEPT !.rows = [n \in DOMAIN t.rows |->
                          [t.rows[n] EXCEPT !.time = ToDatetime(@)]]]

\* The table lines 97-130 return for a table and a well-formed descriptor.
RateData(t, idata) ==
    LET labels == GroupedLabels(t, idata)
    IN  TimeToDatetime(Merge(DataIn(t, labels), DataOut(t, labels), GroupCols))

----------------------------------------------------------------------------
\* process_args, lines 139-159, and generate_plots, lines 29-54.

SampleTypes == {"min", "avg", "max"}

\* parse_args on the mutually exclusive group of --avg, --min, --max: a
\* second flag of the group is an error ("not allowed with argument").
ParserAcceptsAll(flags) == FALSE

ParserRejects(flags) == Cardinality(flags) > 1

\* The options parse_args returns for the flags given (store_true).
Parsed(flags) ==
    [min |-> "min" \in flags, avg |-> "avg" \in flags, max |-> "max" \in flags]

\* Lines 157-159: with no flag given, include everything.
NormalizeAvgDefault(a) ==
    IF ~(a.min \/ a.avg \/ a.max)
    THEN [min |-> FALSE, avg |-> TRUE, max |-> FALSE]
    ELSE a

Normalize(a) ==
    IF ~(a.min \/ a.avg \/ a.max)
    THEN [min |-> TRUE, avg |-> TRUE, max |-> TRUE]
    ELSE a

\* Lines 29-35: the set generate_plots builds from its three booleans.
PlotSet(plot_min, plot_avg, plot_max) ==
    (IF plot_min THEN {"min"} ELSE {})
    \cup (IF plot_avg THEN {"avg"} ELSE {})
    \cup (IF plot_max THEN {"max"} ELSE {})

\* The order of the loop of line 43.
LoopTypes == <<"max", "avg", "min">>

\* The (device, interface) pairs of a table in the order of the nested
\* groupby loops of lines 37-38.
PlotPairs(t) ==
    SelectSeq(SortedPairs,
        LAMBDA p : \E n \in DOMAIN t.rows :
            t.rows[n].device = p[1] /\ t.rows[n].interface = p[2])

Title(p) == "Interface Utilization for " \o p[1] \o ":" \o p[2]

\* Lines 45-53: the rows of one sample type of one device/interface as
\* (time, d_octets_in, d_octets_out) points, drawn in the type's style.
Series(t, p, ty) ==
    [type |-> ty,
     style |-> plot_style[ty],
     labels |-> <<ty \o " octets in", ty \o " octets out">>,
     points |-> LET sel == SelectSeq(t.rows,
                        LAMBDA r : r.device = p[1] /\ r.interface = p[2]
                                   /\ r.sample_type = ty)
                IN  [n \in DOMAIN sel |->
                        <<sel[n].time, sel[n].d_octets_in, sel[n].d_octets_out>>]]

\* plt.show() returns when the windows are closed; a closed figure is gone.
FiguresKeptAfterShow(figs) == figs

FiguresAfterShow(figs) == <<>>

----------------------------------------------------------------------------
\* The initial states.

NoTable == EmptyFrame(<<>>)

\* The files on disk: the data file (or none) and the descriptor (or none).
Disk(csv, yaml) ==
    (IF csv = None THEN <<>> ELSE DataPath :> csv[1])
    @@ (IF yaml = None THEN <<>> ELSE YamlPath :> yaml[1])

\* How the descriptor is named: not at all, by the empty string, by the
\* path of a file that cannot be read, by the path of a readable file.
InterfaceCases ==
    {[arg |-> None, yaml |-> None],
     [arg |-> Some(""), yaml |-> None],
     [arg |-> Some(YamlPath), yaml |-> None]}
    \cup {[arg |-> Some(YamlPath), yaml |-> Some(d)] : d \in Descriptors}

InitRest ==
    /\ args = Parsed({})
    /\ data = NoTable
    /\ interface_data = None
    /\ data_merged = NoTable
    /\ stdout = <<>>
    /\ exit_status = None
    /\ plot_set = {}
    /\ todo = <<>>
    /\ loop_i = 1
    /\ figures = <<>>
    /\ shown = <<>>

\* A call get_rate_data(filename, interface_file): the reducer's rows with
\* no descriptor named, the filter's rows with every way of naming one.
InitRate ==
    /\ \/ \E csv \in {None} \cup {Some(f) : f \in CsvFiles(RateRows)} :
             /\ disk = Disk(csv, None)
             /\ interface_file = None
       \/ \E csv \in {None} \cup {Some(f) : f \in CsvFiles(FilterRows)} :
          \E ic \in InterfaceCases :
             /\ disk = Disk(csv, ic.yaml)
             /\ interface_file = ic.arg
    /\ filename = DataPath
    /\ argv = [flags |-> {}, interfaces |-> interface_file]
    /\ pc = "load"
    /\ InitRest

\* A run of the program from its command line.
InitRun ==
    /\ \E csv \in {None} \cup {Some(f) : f \in CsvFiles(PlotRows)} :
       \E ic \in InterfaceCases :
       \E flags \in SUBSET SampleTypes :
          /\ disk = Disk(csv, ic.yaml)
          /\ argv = [flags |-> flags, interfaces |-> ic.arg]
    /\ filename = None
    /\ interface_file = None
    /\ pc = "parse"
    /\ InitRest

----------------------------------------------------------------------------
\* The steps of get_rate_data.

\* Lines 77-83.
LoadData ==
    /\ pc = "load"
    /\ data' = ReadData(disk, filename)
    /\ stdout' = IF Readable(disk, filename) THEN stdout
                 ELSE stdout \o <<"Error: Unable to read " \o filename,
                                  "IOError">>
    /\ pc' = "interfaces"
    /\ UNCHANGED <<argv, args, disk, filename, interface_file, interface_data,
                   data_merged, exit_status, plot_set, todo, loop_i, figures,
                   shown>>

\* Lines 85-95.
LoadInterfaces ==
    /\ pc = "interfaces"
    /\ interface_data' = ReadInterfaces(disk, interface_file)
    /\ stdout' = IF interface_file # None /\ interface_file[1] # ""
                    /\ ~Readable(disk, interface_file[1])
                 THEN stdout \o <<"Error: Unable to read Interface file "
                                    \o interface_file[1] \o " - Ignoring",
                                  "IOError">>
                 ELSE stdout
    /\ pc' = "reduce"
    /\ UNCHANGED <<argv, args, disk, filename, interface_file, data, data_merged,
                   exit_status, plot_set, todo, loop_i, figures, shown>>

\* Lines 97-130: a descriptor that lacks a key ends the program with a
\* KeyError; otherwise the merged table is returned.
Reduce ==
    /\ pc = "reduce"
    /\ IF interface_data # None /\ ~WellFormed(interface_data[1])
       THEN /\ pc' = "raised"
            /\ exit_status' = Some("KeyError")
            /\ UNCHANGED data_merged
       ELSE /\ pc' = "returned"
            /\ data_merged' = RateData(data, interface_data)
            /\ UNCHANGED exit_status
    /\ UNCHANGED <<argv, args, disk, filename, interface_file, data, interface_data,
                   stdout, plot_set, todo, loop_i, figures, shown>>

----------------------------------------------------------------------------
\* The steps of process_args and generate_plots.

\* Lines 139-159: parse the command line; a rejected command line ends the
\* program with status 2, an accepted one calls get_rate_data.
ParseArgs ==
    /\ pc = "parse"
    /\ IF ParserRejects(argv.flags)
       THEN /\ pc' = "exit"
            /\ exit_status' = Some("2")
            /\ UNCHANGED <<args, filename, interface_file>>
       ELSE /\ pc' = "load"
            /\ args' = Normalize(Parsed(argv.flags))
            /\ filename' = DataPath
            /\ interface_file' = argv.interfaces
            /\ UNCHANGED exit_status
    /\ UNCHANGED <<argv, disk, data, interface_data, data_merged, stdout,
                   plot_set, todo, loop_i, figures, shown>>

\* Lines 29-37: enter generate_plots with the returned table.
PlotStart ==
    /\ pc = "returned"
    /\ plot_set' = PlotSet(args.min, args.avg, args.max)
    /\ todo' = PlotPairs(data_merged)
    /\ pc' = IF PlotPairs(data_merged) = <<>> THEN "done" ELSE "open"
    /\ UNCHANGED <<argv, args, disk, filename, interface_file, data, interface_data,
                   data_merged, stdout, exit_status, loop_i, figures, shown>>

\* Lines 39-42: print the pair, open a figure and title it.
OpenChart ==
    /\ pc = "open"
    /\ stdout' = Append(stdout, HostPort(todo[1][1], todo[1][2]))
    /\ figures' = Append(figures, [pair |-> todo[1], title |-> Title(todo[1]),
                                   series |-> <<>>])
    /\ loop_i' = 1
    /\ pc' = "draw"
    /\ UNCHANGED <<argv, args, disk, filename, interface_file, data, interface_data,
                   data_merged, exit_status, plot_set, todo, shown>>

\* Lines 43-53: one turn of the loop over the sample types, drawing on the
\* figure opened last.
DrawSeries ==
    /\ pc = "draw"
    /\ figures' =
         IF LoopTypes[loop_i] \in plot_set
         THEN [figures EXCEPT ![Len(figures)].series =
                  Append(@, Series(data_merged, todo[1], LoopTypes[loop_i]))]
         ELSE figures
    /\ loop_i' = loop_i + 1
    /\ pc' = IF loop_i = Len(LoopTypes) THEN "show" ELSE "draw"
    /\ UNCHANGED <<argv, args, disk, filename, interface_file, data, interface_data,
                   data_merged, stdout, exit_status, plot_set, todo, shown>>

\* Line 54: plt.show() displays the open figures and blocks.
ShowChart ==
    /\ pc = "show"
    /\ shown' = shown \o figures
    /\ pc' = "showing"
    /\ UNCHANGED <<argv, args, disk, filename, interface_file, data, interface_data,
                   data_merged, stdout, exit_status, plot_set, todo, loop_i,
                   figures>>

\* The user dismisses the chart: plt.show() returns and the loop goes on.
DismissChart ==
    /\ pc = "showing"
    /\ figures' = FiguresAfterShow(figures)
    /\ todo' = Tail(todo)
    /\ pc' = IF Tail(todo) = <<>> THEN "done" ELSE "open"
    /\ UNCHANGED <<argv, args, disk, filename, interface_file, data, interface_data,
                   data_merged, stdout, exit_status, plot_set, loop_i, shown>>

----------------------------------------------------------------------------
\* The specifications.

NextRate == LoadData \/ LoadInterfaces \/ Reduce

\* get_rate_data called on every input of the model.
SpecRate == InitRate /\ [][NextRate]_vars

NextRun ==
    \/ ParseArgs
    \/ LoadData
    \/ LoadInterfaces
    \/ Reduce
    \/ PlotStart
    \/ OpenChart
    \/ DrawSeries
    \/ ShowChart
    \/ DismissChart

\* The program run on every command line of the model.
SpecRun == InitRun /\ [][NextRun]_vars

----------------------------------------------------------------------------
\* Vocabulary of the properties of get_rate_data.

Returned == pc = "returned"

\* The rows of the data file whose "device:interface" is listed by the
\* descriptor (every row when there is no descriptor).
Surviving ==
    {i \in DOMAIN data.rows :
        \/ interface_data = None
        \/ HostPort(data.rows[i].device, data.rows[i].interface)
              \in InterfaceList(interface_data[1])}

KeyOf(r) == <<r.time, r.device, r.interface, r.sample_type>>

\* The groups of the surviving rows, by the four fields as read.
SurvivingGroups == {KeyOf(data.rows[i]) : i \in Surviving}

RowsOf(k) == {i \in Surviving : KeyOf(data.rows[i]) = k}

\* The key a group's merged row carries: its time parsed.
OutKey(k) == <<ToDatetime(k[1]), k[2], k[3], k[4]>>

MaxIn(k) == Max({data.rows[i].d_octets_in : i \in RowsOf(k)})

MaxOut(k) == Max({data.rows[i].d_octets_out : i \in RowsOf(k)})

FourFields(r) ==
    {"time", "device", "interface", "sample_type"} \subseteq DOMAIN r

MergedKeys == {KeyOf(data_merged.rows[n]) : n \in DOMAIN data_merged.rows}

----------------------------------------------------------------------------
\* C1 as stated: the returned table holds one row per group of the
\* surviving rows, no two of its rows share the same (time, device,
\* interface, sample_type), and it has no more rows than there are groups.
C1_UniqueMergedKeys ==
    Returned =>
        /\ Len(data_merged.rows) = Cardinality(SurvivingGroups)
        /\ \A m, n \in DOMAIN data_merged.rows :
              KeyOf(data_merged.rows[m]) = KeyOf(data_merged.rows[n]) => m = n

\* C1 amended: the returned table holds exactly one row per group of the
\* surviving rows, groups being told apart by the time as written in the
\* file: for every returned key, the rows carrying it are as many as the
\* groups whose key parses to it, so the join never fans out; two returned
\* rows share a key only when two groups spell one instant differently.
C1_OneRowPerGroup ==
    Returned =>
        /\ Len(data_merged.rows) = Cardinality(SurvivingGroups)
        /\ \A n \in DOMAIN data_merged.rows : FourFields(data_merged.rows[n])
        /\ MergedKeys = {OutKey(k) : k \in SurvivingGroups}
        /\ \A ok \in MergedKeys :
              Cardinality({n \in DOMAIN data_merged.rows :
                              KeyOf(data_merged.rows[n]) = ok})
                 = Cardinality({k \in SurvivingGroups : OutKey(k) = ok})

\* Several rows of one group tie on both maxima and one row is returned.
C1_Witness ==
    /\ Returned
    /\ Len(data_merged.rows) = 1
    /\ \E i, j \in Surviving :
          /\ i # j
          /\ KeyOf(data.rows[i]) = KeyOf(data.rows[j])
          /\ data.rows[i].d_octets_in = data.rows[j].d_octets_in
          /\ data.rows[i].d_octets_out = data.rows[j].d_octets_out

----------------------------------------------------------------------------
\* C2: every group of the surviving rows has a returned row that carries
\* the group's maximum d_octets_in and its maximum d_octets_out, each taken
\* over all the rows of the group, and every returned row is such a row.
C2_IndependentMaxima ==
    Returned =>
        /\ \A k \in SurvivingGroups : \E n \in DOMAIN data_merged.rows :
              /\ KeyOf(data_merged.rows[n]) = OutKey(k)
              /\ data_merged.rows[n].d_octets_in = MaxIn(k)
              /\ data_merged.rows[n].d_octets_out = MaxOut(k)
        /\ \A n \in DOMAIN data_merged.rows : \E k \in SurvivingGroups :
              /\ KeyOf(data_merged.rows[n]) = OutKey(k)
              /\ data_merged.rows[n].d_octets_in = MaxIn(k)
              /\ data_merged.rows[n].d_octets_out = MaxOut(k)
        /\ \A k \in SurvivingGroups : \A i \in RowsOf(k) :
              RowsOf(k) = {i} =>
                 \E n \in DOMAIN data_merged.rows :
                    /\ KeyOf(data_merged.rows[n]) = OutKey(k)
                    /\ data_merged.rows[n].d_octets_in = data.rows[i].d_octets_in
                    /\ data_merged.rows[n].d_octets_out = data.rows[i].d_octets_out

\* The two maxima of a group come from different rows.
C2_Witness ==
    /\ Returned
    /\ \E k \in SurvivingGroups : \E i, j \in RowsOf(k) :
          /\ data.rows[i].d_octets_in > data.rows[j].d_octets_in
          /\ data.rows[i].d_octets_out < data.rows[j].d_octets_out
          /\ \E n \in DOMAIN data_merged.rows :
                /\ data_merged.rows[n].d_octets_in = data.rows[i].d_octets_in
                /\ data_merged.rows[n].d_octets_out = data.rows[j].d_octets_out

----------------------------------------------------------------------------
\* C3: with a readable descriptor, a group of the data file has a row in
\* the returned table exactly when its "device:interface" is in the set
\* flattened from the descriptor.
C3_FilterMembership ==
    Returned /\ interface_data # None =>
        \A i \in DOMAIN data.rows :
            (OutKey(KeyOf(data.rows[i])) \in MergedKeys)
               <=> (data.rows[i].device \o ":" \o data.rows[i].interface
                       \in InterfaceList(interface_data[1]))

\* The descriptor lists hostA with eth0 only; a row of hostA:eth0 is kept
\* and a row of another interface or device is removed.
C3_Witness ==
    /\ Returned
    /\ interface_data # None
    /\ InterfaceList(interface_data[1]) = {"hostA:eth0"}
    /\ Len(data.rows) = 2
    /\ Len(data_merged.rows) = 1
    /\ data_merged.rows[1].device = "hostA"
    /\ data_merged.rows[1].interface = "eth0"

----------------------------------------------------------------------------
\* C5: when no descriptor is named, the name is empty or the file cannot
\* be read, get_rate_data does not fail, reports an unreadable file before
\* it reduces, and returns what it returns with no descriptor: a row for
\* every group of the data file.
NoDescriptorFile ==
    \/ interface_file = None
    \/ interface_file = Some("")
    \/ interface_file[1] \notin DOMAIN disk

AllGroups == {KeyOf(data.rows[i]) : i \in DOMAIN data.rows}

C5_NoFilterWithoutDescriptor ==
    NoDescriptorFile =>
        /\ pc # "raised"
        /\ pc \in {"reduce", "returned"} /\ interface_file \notin {None, Some("")} =>
              \E n \in DOMAIN stdout :
                 stdout[n] = "Error: Unable to read Interface file "
                                \o interface_file[1] \o " - Ignoring"
        /\ Returned =>
              /\ data_merged = RateData(data, None)
              /\ Len(data_merged.rows) = Cardinality(AllGroups)
              /\ MergedKeys = {OutKey(k) : k \in AllGroups}

\* The named descriptor cannot be read and both rows of the file are kept.
C5_Witness ==
    /\ Returned
    /\ interface_file = Some(YamlPath)
    /\ YamlPath \notin DOMAIN disk
    /\ Len(data_merged.rows) = 2

----------------------------------------------------------------------------
\* C8 as stated: every returned row has exactly the six fields time,
\* device, interface, sample_type, d_octets_in, d_octets_out.
SixFields ==
    {"time", "device", "interface", "sample_type", "d_octets_in", "d_octets_out"}

C8_SixFields ==
    Returned =>
        /\ Range(data_merged.columns) = SixFields
        /\ \A n \in DOMAIN data_merged.rows : DOMAIN data_merged.rows[n] = SixFields

\* C8 amended: every returned row has exactly seven fields, the six above
\* and interface_speed, which is dropped from the outbound selection only
\* and so is kept once, unsuffixed, from the inbound-maximum row.
C8_SevenFields ==
    Returned =>
        /\ data_merged.columns =
              <<"time", "device", "interface", "interface_speed", "sample_type",
                "d_octets_in", "d_octets_out">>
        /\ \A n \in DOMAIN data_merged.rows :
              /\ DOMAIN data_merged.rows[n] = SixFields \cup {"interface_speed"}
              /\ \E i \in Surviving :
                    /\ OutKey(KeyOf(data.rows[i])) = KeyOf(data_merged.rows[n])
                    /\ data.rows[i].interface_speed
                          = data_merged.rows[n].interface_speed

\* A returned row carries an interface_speed.
C8_Witness ==
    /\ Returned
    /\ Len(data_merged.rows) = 2
    /\ data_merged.rows[1].interface_speed # data_merged.rows[2].interface_speed

----------------------------------------------------------------------------
\* C10: when several rows of a group share its maximum d_octets_in, the
\* returned row takes its inbound fields, interface_speed among them, from
\* the first of them in file order.
FirstMaxIn(k) ==
    Min({i \in RowsOf(k) : data.rows[i].d_octets_in = MaxIn(k)})

FirstMaxOut(k) ==
    Min({i \in RowsOf(k) : data.rows[i].d_octets_out = MaxOut(k)})

C10_FirstOccurrenceOnTies ==
    Returned =>
        \A k \in SurvivingGroups : \E n \in DOMAIN data_merged.rows :
            /\ KeyOf(data_merged.rows[n]) = OutKey(k)
            /\ data_merged.rows[n].interface_speed
                  = data.rows[FirstMaxIn(k)].interface_speed
            /\ data_merged.rows[n].d_octets_in
                  = data.rows[FirstMaxIn(k)].d_octets_in
            /\ data_merged.rows[n].d_octets_out
                  = data.rows[FirstMaxOut(k)].d_octets_out

\* Two rows of one group tie on d_octets_in and differ in interface_speed.
C10_Witness ==
    /\ Returned
    /\ Len(data_merged.rows) = 1
    /\ \E i, j \in Surviving :
          /\ i < j
          /\ KeyOf(data.rows[i]) = KeyOf(data.rows[j])
          /\ data.rows[i].d_octets_in = data.rows[j].d_octets_in
          /\ data.rows[i].interface_speed # data.rows[j].interface_speed
          /\ data_merged.rows[1].interface_speed = data.rows[i].interface_speed

----------------------------------------------------------------------------
\* Vocabulary of the properties of a run of the program.

InPlotter == pc \in {"open", "draw", "show", "showing", "done"}

Rejected == pc = "exit" /\ exit_status = Some("2")

DataFileUnreadable == DataPath \notin DOMAIN disk

TypesOf(chart) == {chart.series[n].type : n \in DOMAIN chart.series}

\* The sample types the command line asks for.
Requested == IF argv.flags = {} THEN {"min", "avg", "max"} ELSE argv.flags

----------------------------------------------------------------------------
----------------------------------------------------------------------------
----------------------------------------------------------------------------
\* C7 as stated: every subset of the three flags is accepted, and the
\* series plotted are those of the subset (all three for the empty one).
C7_EverySubsetAccepted ==
    pc # "parse" =>
        /\ ~Rejected
        /\ \A n \in DOMAIN shown : TypesOf(shown[n]) = Requested

\* C7 amended: a command line with two or three of the flags is rejected by
\* the parser, with status 2 and before anything is read or drawn; one with
\* no flag or one flag is accepted, and every chart shows exactly all three
\* types (no flag) or the one type given.
C7_FlagsExclusive ==
    pc # "parse" =>
        /\ Rejected <=> Cardinality(argv.flags) >= 2
        /\ Rejected => data = NoTable /\ stdout = <<>> /\ shown = <<>>
        /\ ~Rejected => pc # "exit"
        /\ \A n \in DOMAIN shown : TypesOf(shown[n]) = Requested

\* Two flags were given and the parser has ended the program.
C7_Witness ==
    /\ Rejected
    /\ argv.flags = {"min", "max"}

----------------------------------------------------------------------------
\* C9: one chart per (device, interface) of the merged table, titled for
\* it, one at a time: never two charts open, none open when the next is
\* opened, and the types on a chart follow the order max, avg, min.
Position(ty) == CASE ty = "max" -> 1 [] ty = "avg" -> 2 [] ty = "min" -> 3

MergedPairs ==
    {<<data_merged.rows[n].device, data_merged.rows[n].interface>> :
        n \in DOMAIN data_merged.rows}

C9_OneChartAtATime ==
    /\ Len(figures) <= 1
    /\ pc = "open" => figures = <<>>
    /\ \A m, n \in DOMAIN shown : shown[m].pair = shown[n].pair => m = n
    /\ \A n \in DOMAIN shown :
          /\ shown[n].pair \in MergedPairs
          /\ shown[n].title = "Interface Utilization for "
                                 \o shown[n].pair[1] \o ":" \o shown[n].pair[2]
          /\ TypesOf(shown[n]) = plot_set
          /\ \A i, j \in DOMAIN shown[n].series :
                i < j => Position(shown[n].series[i].type)
                            < Position(shown[n].series[j].type)
    /\ pc = "done" => {shown[n].pair : n \in DOMAIN shown} = MergedPairs

\* Two charts were shown, one after the other, each with several series.
C9_Witness ==
    /\ pc = "done"
    /\ Len(shown) = 2
    /\ Len(shown[1].series) = 3
    /\ figures = <<>>

====
